---- MODULE Spec2Model ----
(***************************************************************************)
(* Model of the token classification task (src/tasks/token_classification  *)
(* .py) and of the epoch loop of the training driver (train.py).           *)
(*                                                                         *)
(* Tensors are sequences of rows, a row is a sequence of cells.  Floats    *)
(* that the code only compares are kept exact: probabilities are integers  *)
(* in thousandths, ratios are pairs <<numerator, denominator>>.            *)
(***************************************************************************)
EXTENDS Integers, Sequences, FiniteSets, TLC

VARIABLES
    \* ---- TokenClassificationTask and the objects handed to it
    args,            \* self.args: gradient_accumulation_steps, steps_per_epoch
    global_step,     \* self.global_step
    mode,            \* model.train() / model.eval()
    opt_steps,       \* number of optimizer.step() calls so far
    sched_steps,     \* number of scheduler.step() calls so far
    grad,            \* batches whose backward() is summed in the .grad buffers
    \* ---- the running call (train / eval / inference)
    pc,              \* "idle", "train_loop", "train_end", "eval_loop", "inference_loop", "error"
    err,             \* the exception that ended the run, "none" otherwise
    loss_type,       \* kwargs.get("loss_type", ...)
    dl_len,          \* number of batches the dataloader of this call yields
    fetched,         \* batches taken from the dataloader by this call
    forwards,        \* forward passes made by this call
    steps,           \* local `steps`
    n_pred_total,    \* local `n_pred_total`
    n_pred_correct,  \* local `n_pred_correct`
    calls,           \* framework calls made while processing the latest batch, in order
    preds,           \* local `preds` (eval: flat list, inference: list of lists)
    labels,          \* local `labels` (eval)
    th,              \* inference threshold, in thousandths
    ret,             \* value returned by the latest call that returned
    \* ---- history of the running call (read by the properties only)
    n_calls,         \* calls started so far
    at_call,         \* global_step / opt_steps / sched_steps when the call started
    unstepped,       \* batches processed since the previous optimizer.step()
    step_used,       \* contents of .grad at the latest optimizer.step()
    step_due,        \* batches processed since the previous optimizer.step(), at the latest one
    batch_stats,     \* eval: <<n_correct, n_valid>> of every batch, in order
    inf_in,          \* inference: <<mask row, logit row>> of every sentence, in order
    \* ---- compute_correct applied to one input
    cc_in,           \* logits, labels, mask, th
    cc_out,          \* result of compute_correct(cc_in), "none" before the call
    cc_prev,         \* result before the latest change of a masked-out cell
    \* ---- train.py
    cfg,             \* args of the driver: epochs, eval_every, batches_per_epoch, ...
    dpc,             \* position of the driver
    epoch,           \* loop variable
    best_f1,         \* best_f1
    saved,           \* save_checkpoint calls: epoch of the file name -> is_best
    f_seen           \* eval_f_score of every evaluated epoch, in order

taskVars == <<args, global_step, mode, opt_steps, sched_steps, grad>>
callVars == <<pc, err, loss_type, dl_len, fetched, forwards, steps, n_pred_total,
              n_pred_correct, calls, preds, labels, th, ret>>
histVars == <<n_calls, at_call, unstepped, step_used, step_due, batch_stats, inf_in>>
ccVars == <<cc_in, cc_out, cc_prev>>
drvVars == <<cfg, dpc, epoch, best_f1, saved, f_seen>>
vars == <<taskVars, callVars, histVars, ccVars, drvVars>>

----------------------------------------------------------------------------
(* Bounds of the model *)

MaxCalls == 2          \* calls of train in one run of the task
MaxLen == 4            \* batches a train dataloader yields
MaxGA == 3             \* gradient_accumulation_steps
MaxStepsPerEpoch == 2  \* steps_per_epoch
MaxEvalLen == 2        \* batches an eval dataloader yields
MaxLossLen == 1        \* batches of a dataloader, where only the loss kind matters
MaxInfLen == 2         \* batches an inference dataloader yields
MaxEpochs == 3         \* --epochs
MaxEvalEvery == 2      \* --eval_every
MaxBatchesPerEpoch == 3 \* len(train_epoch_gen)

(* Program constants *)

IgnoreIndex == -100    \* ignore_index
DefaultTh == 500       \* th = 0.5, in thousandths

Shapes == {<<1, 1>>, <<1, 2>>, <<2, 1>>}   \* (sentences, tokens) of a batch
TrainShapes == {<<1, 1>>, <<1, 2>>}        \* the same, of a train batch
Logits == {-1, 0, 1, 2}
TaskLogits == {0, 1}
LabelValues == {0, 1, IgnoreIndex}
MaskValues == {0, 1}
Thresholds == {DefaultTh, 750}
LossTypes == {"binary_cross_entropy", "cross_entropy"}
FScores == {0, 1, 2}   \* eval_f_score, in halves

----------------------------------------------------------------------------
(* Tensor helpers *)

Tensors(shape, Vals) == [1 .. shape[1] -> [1 .. shape[2] -> Vals]]

RECURSIVE SumSeq(_)
SumSeq(s) == IF s = <<>> THEN 0 ELSE Head(s) + SumSeq(Tail(s))

\* torch.sigmoid, in thousandths (rounded)
sigmoid(x) ==
    CASE x = -1 -> 269
      [] x = 0 -> 500
      [] x = 1 -> 731
      [] x = 2 -> 881

\* Tensor.flatten(): row-major
RECURSIVE flatten(_)
flatten(t) == IF t = <<>> THEN <<>> ELSE Head(t) \o flatten(Tail(t))

\* v[mask] / torch.masked_select(v, mask) on flat vectors
masked_select_all(v, m) == v

RECURSIVE masked_select(_, _)
masked_select(v, m) ==
    IF v = <<>> THEN <<>>
    ELSE (IF Head(m) THEN <<Head(v)>> ELSE <<>>) \o masked_select(Tail(v), Tail(m))

\* Tensor.bool() of one cell
bool(x) == x # 0

\* (p > th).long() of one probability
threshold(p, t) == IF p > t THEN 1 ELSE 0

\* preds.eq(labels).sum().item()
eq_sum(p, l) == Cardinality({i \in DOMAIN p : p[i] = l[i]})

\* compute_correct(logits, labels, mask, th)
compute_correct(logits, lab, mask, t) ==
    LET preds0 == [r \in DOMAIN logits |->
                      [c \in DOMAIN logits[r] |-> threshold(sigmoid(logits[r][c]), t)]]
        m == [i \in DOMAIN flatten(mask) |-> bool(flatten(mask)[i])]
        p == masked_select(flatten(preds0), m)
        l == masked_select(flatten(lab), m)
    IN  [n_correct |-> eq_sum(p, l), preds |-> p, labels |-> l]

\* Tensor.ne(v) / (t != v).float(): 1 where the cell differs from v
ne(t, v) == [r \in DOMAIN t |-> [c \in DOMAIN t[r] |-> IF t[r][c] # v THEN 1 ELSE 0]]

----------------------------------------------------------------------------
(* get_loss_fn: TRUE when a loss functor is returned, FALSE when it raises *)

get_loss_fn_any(type) == TRUE

get_loss_fn(type) == type = "binary_cross_entropy"

----------------------------------------------------------------------------
(* States shared by the specifications: the parts a specification does not *)
(* exercise stay at these values.                                          *)

NoCall ==
    /\ pc = "idle" /\ err = "none" /\ loss_type = "binary_cross_entropy"
    /\ dl_len = 0 /\ fetched = 0 /\ forwards = 0 /\ steps = 0
    /\ n_pred_total = 0 /\ n_pred_correct = 0 /\ calls = <<>>
    /\ preds = <<>> /\ labels = <<>> /\ th = DefaultTh /\ ret = <<>>

NoHistory ==
    /\ n_calls = 0
    /\ at_call = [global_step |-> 0, opt_steps |-> 0, sched_steps |-> 0]
    /\ unstepped = {} /\ step_used = {} /\ step_due = {}
    /\ batch_stats = <<>> /\ inf_in = <<>>

NoComputeCorrect ==
    /\ cc_in = [logits |-> <<>>, labels |-> <<>>, mask |-> <<>>, th |-> DefaultTh]
    /\ cc_out = <<>> /\ cc_prev = <<>>

NoDriver ==
    /\ cfg = [epochs |-> 0, eval_every |-> 1, batches_per_epoch |-> 0,
              num_training_steps |-> 0]
    /\ dpc = "none" /\ epoch = 0 /\ best_f1 = 0 /\ saved = <<>> /\ f_seen = <<>>

\* a freshly constructed task, model, optimizer and scheduler
NewTask(G, spe) ==
    /\ args = [gradient_accumulation_steps |-> G, steps_per_epoch |-> spe]
    /\ global_step = 0
    /\ mode \in {"train", "eval"}
    /\ opt_steps = 0 /\ sched_steps = 0 /\ grad = {}

----------------------------------------------------------------------------
(* compute_correct as a pure function: one input, then changes of cells    *)
(* the mask leaves out.                                                    *)

CCInputs ==
    UNION {[logits : Tensors(sh, Logits), labels : Tensors(sh, LabelValues),
            mask : Tensors(sh, MaskValues), th : Thresholds] : sh \in Shapes}

InitCC ==
    /\ NewTask(1, 1) /\ mode = "eval" /\ NoCall /\ NoHistory /\ NoDriver
    /\ cc_in \in CCInputs
    /\ cc_out = <<>> /\ cc_prev = <<>>

CCCall ==
    /\ cc_out = <<>>
    /\ cc_out' = <<compute_correct(cc_in.logits, cc_in.labels, cc_in.mask, cc_in.th)>>
    /\ UNCHANGED <<cc_in, cc_prev, taskVars, callVars, histVars, drvVars>>

\* the same call again after a cell with a false mask got another logit and label
CCChangeMasked ==
    /\ cc_out # <<>>
    /\ \E r \in DOMAIN cc_in.mask : \E c \in DOMAIN cc_in.mask[r] :
       \E x \in Logits, y \in LabelValues :
          /\ ~bool(cc_in.mask[r][c])
          /\ <<x, y>> # <<cc_in.logits[r][c], cc_in.labels[r][c]>>
          /\ cc_in' = [cc_in EXCEPT !.logits[r][c] = x, !.labels[r][c] = y]
    /\ cc_prev' = cc_out
    /\ cc_out' = <<compute_correct(cc_in'.logits, cc_in'.labels, cc_in'.mask, cc_in'.th)>>
    /\ UNCHANGED <<taskVars, callVars, histVars, drvVars>>

NextCC == CCCall \/ CCChangeMasked

SpecCC == InitCC /\ [][NextCC]_vars

----------------------------------------------------------------------------
(* TokenClassificationTask.train                                           *)

\* optimizer.zero_grad()
zero_grad(g) == {}

\* loss_t.backward(): adds the gradient of batch i to the .grad buffers
backward(g, i) == g \cup {i}

\* batch_idx % self.args.gradient_accumulation_steps == 0
step_gate_count(batch_idx, G) == (batch_idx + 1) % G = 0

step_gate(batch_idx, G) == batch_idx % G = 0

\* (steps / self.args.gradient_accumulation_steps) == self.args.steps_per_epoch
epoch_done_late(n, G, spe) == n % G = 0 /\ n \div G = spe + 1

epoch_done(n, G, spe) == n % G = 0 /\ n \div G = spe

\* the framework calls of one batch, in the order of the loop body
batch_calls(do_step) ==
    <<"zero_grad", "forward", "loss", "backward", "clip_grad_norm_">>
        \o (IF do_step THEN <<"optimizer.step", "scheduler.step">> ELSE <<>>)

\* lines 64-73: model.train(), get_loss_fn, the locals (the caller's own
\* variables are left to the caller)
TrainStart(type, n) ==
    /\ pc = "idle"
    /\ mode' = "train"
    /\ loss_type' = type /\ dl_len' = n
    /\ n_calls' = n_calls + 1
    /\ at_call' = [global_step |-> global_step, opt_steps |-> opt_steps,
                   sched_steps |-> sched_steps]
    /\ IF get_loss_fn(type)
       THEN pc' = "train_loop" /\ err' = "none"
       ELSE pc' = "error" /\ err' = "NotImplementedError"
    /\ fetched' = 0 /\ forwards' = 0 /\ steps' = 0
    /\ n_pred_total' = 0 /\ n_pred_correct' = 0
    /\ calls' = <<>> /\ unstepped' = {} /\ ret' = <<>>
    /\ preds' = <<>> /\ labels' = <<>> /\ batch_stats' = <<>> /\ inf_in' = <<>>
    /\ UNCHANGED <<args, global_step, opt_steps, sched_steps, grad, th,
                   step_used, step_due, ccVars>>

\* lines 75-124: one iteration of the loop over the dataloader
TrainBatch ==
    /\ pc = "train_loop"
    /\ fetched < dl_len
    /\ \E sh \in TrainShapes : \E label_t \in Tensors(sh, LabelValues) :
       \E logits_t \in Tensors(sh, TaskLogits) :
          LET batch_idx == fetched
              G == args.gradient_accumulation_steps
              mask == ne(label_t, IgnoreIndex)
              g == backward(zero_grad(grad), batch_idx)
              do_step == step_gate(batch_idx, G)
              cc == compute_correct(logits_t, label_t, mask, DefaultTh)
          IN  /\ fetched' = fetched + 1
              /\ forwards' = forwards + 1
              /\ grad' = g
              /\ calls' = batch_calls(do_step)
              /\ opt_steps' = IF do_step THEN opt_steps + 1 ELSE opt_steps
              /\ sched_steps' = IF do_step THEN sched_steps + 1 ELSE sched_steps
              /\ step_used' = IF do_step THEN g ELSE step_used
              /\ step_due' = IF do_step THEN unstepped \cup {batch_idx} ELSE step_due
              /\ unstepped' = IF do_step THEN {} ELSE unstepped \cup {batch_idx}
              /\ steps' = steps + 1
              /\ n_pred_total' = n_pred_total + SumSeq(flatten(mask))
              /\ n_pred_correct' = n_pred_correct + cc.n_correct
              /\ pc' = IF epoch_done(steps + 1, G, args.steps_per_epoch)
                       THEN "train_end" ELSE "train_loop"
    /\ UNCHANGED <<args, global_step, mode, err, loss_type, dl_len, preds, labels,
                   th, ret, n_calls, at_call, batch_stats, inf_in, ccVars, drvVars>>

\* int(steps / gradient_accumulation_steps)
int_steps(n, G) == n \div G

\* lines 126-130, after the break or the end of the dataloader
TrainFinish ==
    /\ pc = "train_end" \/ (pc = "train_loop" /\ fetched = dl_len)
    /\ IF steps = 0 \/ n_pred_total = 0
       THEN \* total_loss / steps, n_pred_correct / n_pred_total
            /\ pc' = "error" /\ err' = "ZeroDivisionError"
            /\ UNCHANGED <<global_step, ret>>
       ELSE /\ global_step' = global_step
                               + int_steps(steps, args.gradient_accumulation_steps)
            /\ ret' = <<[accuracy |-> <<n_pred_correct, n_pred_total>>]>>
            /\ pc' = "idle" /\ UNCHANGED err
    /\ UNCHANGED <<args, mode, opt_steps, sched_steps, grad, loss_type, dl_len,
                   fetched, forwards, steps, n_pred_total, n_pred_correct, calls,
                   preds, labels, th, histVars, ccVars, drvVars>>

----------------------------------------------------------------------------
(* TokenClassificationTask.eval                                            *)

\* np.concatenate(list of arrays)
concatenate_last(l) == IF l = <<>> THEN <<>> ELSE l[Len(l)]

concatenate(l) == flatten(l)

\* sklearn accuracy_score(labels, preds): <<matches, samples>>
accuracy_score(l, p) == <<Cardinality({i \in DOMAIN l : l[i] = p[i]}), Len(l)>>

\* lines 139-149: model.eval(), get_loss_fn, the locals
EvalStart(type, n) ==
    /\ pc = "idle"
    /\ mode' = "eval"
    /\ loss_type' = type /\ dl_len' = n
    /\ n_calls' = n_calls + 1
    /\ at_call' = [global_step |-> global_step, opt_steps |-> opt_steps,
                   sched_steps |-> sched_steps]
    /\ IF get_loss_fn(type)
       THEN pc' = "eval_loop" /\ err' = "none"
       ELSE pc' = "error" /\ err' = "NotImplementedError"
    /\ fetched' = 0 /\ forwards' = 0 /\ steps' = 0
    /\ n_pred_total' = 0 /\ n_pred_correct' = 0
    /\ calls' = <<>> /\ unstepped' = {} /\ ret' = <<>>
    /\ preds' = <<>> /\ labels' = <<>> /\ batch_stats' = <<>> /\ inf_in' = <<>>
    /\ UNCHANGED <<args, global_step, opt_steps, sched_steps, grad, th,
                   step_used, step_due, ccVars>>

\* lines 151-178: one iteration of the loop over the dataloader
EvalBatch ==
    /\ pc = "eval_loop"
    /\ fetched < dl_len
    /\ \E sh \in Shapes : \E label_t \in Tensors(sh, LabelValues) :
       \E logits_t \in Tensors(sh, TaskLogits) :
          LET mask == ne(label_t, IgnoreIndex)
              cc == compute_correct(logits_t, label_t, mask, DefaultTh)
          IN  /\ preds' = Append(preds, cc.preds)
              /\ labels' = Append(labels, cc.labels)
              /\ batch_stats' = Append(batch_stats,
                                       <<cc.n_correct, SumSeq(flatten(mask))>>)
    /\ fetched' = fetched + 1
    /\ forwards' = forwards + 1
    /\ calls' = <<"forward", "loss">>
    /\ steps' = steps + 1
    /\ UNCHANGED <<taskVars, pc, err, loss_type, dl_len, n_pred_total, n_pred_correct,
                   th, ret, n_calls, at_call, unstepped, step_used, step_due, inf_in,
                   ccVars, drvVars>>

\* lines 180-202, after the end of the dataloader.  The macro precision,
\* recall and F1 come from sklearn and are not computed here; on vectors
\* without any sample sklearn either raises or reports NaN (<<0, 0>>).
EvalFinish ==
    /\ pc = "eval_loop" /\ fetched = dl_len
    /\ IF steps = 0
       THEN \* total_loss /= steps
            pc' = "error" /\ err' = "ZeroDivisionError" /\ UNCHANGED ret
       ELSE LET l == concatenate(labels)
                p == concatenate(preds)
            IN  \/ /\ ret' = <<[eval_acc |-> accuracy_score(l, p)]>>
                   /\ pc' = "idle" /\ UNCHANGED err
                \/ /\ l = <<>>
                   /\ pc' = "error" /\ err' = "ValueError" /\ UNCHANGED ret
    /\ UNCHANGED <<taskVars, loss_type, dl_len, fetched, forwards, steps, n_pred_total,
                   n_pred_correct, calls, preds, labels, th, histVars, ccVars, drvVars>>

----------------------------------------------------------------------------
(* TokenClassificationTask.inference (static)                              *)

\* torch.masked_select(p, m) then (p > th).long() of one sentence
sentence_labels(m, p, t) ==
    LET sel == masked_select(p, [i \in DOMAIN m |-> bool(m[i])])
    IN  [i \in DOMAIN sel |-> threshold(sel[i], t)]

\* lines 234-239: the loop over zip(mask, pred_t), appending to preds
RECURSIVE append_sentences_front(_, _, _, _)
append_sentences_front(acc, mask, pred_t, t) ==
    IF mask = <<>> THEN acc
    ELSE append_sentences_front(<<sentence_labels(Head(mask), Head(pred_t), t)>> \o acc,
                                Tail(mask), Tail(pred_t), t)

RECURSIVE append_sentences(_, _, _, _)
append_sentences(acc, mask, pred_t, t) ==
    IF mask = <<>> THEN acc
    ELSE append_sentences(Append(acc, sentence_labels(Head(mask), Head(pred_t), t)),
                          Tail(mask), Tail(pred_t), t)

\* lines 214-215
InferenceStart(n, t) ==
    /\ pc = "idle"
    /\ mode' = "eval"
    /\ dl_len' = n /\ th' = t
    /\ n_calls' = n_calls + 1
    /\ at_call' = [global_step |-> global_step, opt_steps |-> opt_steps,
                   sched_steps |-> sched_steps]
    /\ pc' = "inference_loop" /\ err' = "none"
    /\ fetched' = 0 /\ forwards' = 0 /\ steps' = 0
    /\ n_pred_total' = 0 /\ n_pred_correct' = 0
    /\ calls' = <<>> /\ unstepped' = {} /\ ret' = <<>>
    /\ preds' = <<>> /\ labels' = <<>> /\ batch_stats' = <<>> /\ inf_in' = <<>>
    /\ UNCHANGED <<args, global_step, opt_steps, sched_steps, grad, loss_type,
                   step_used, step_due, ccVars>>

\* lines 217-239: one iteration of the loop over the dataloader
InferenceBatch ==
    /\ pc = "inference_loop"
    /\ fetched < dl_len
    /\ \E sh \in Shapes : \E token_mask \in Tensors(sh, {1, IgnoreIndex}) :
       \E logits_t \in Tensors(sh, TaskLogits) :
          LET pred_t == [r \in DOMAIN logits_t |->
                            [c \in DOMAIN logits_t[r] |-> sigmoid(logits_t[r][c])]]
              mask == ne(token_mask, IgnoreIndex)
          IN  /\ preds' = append_sentences(preds, mask, pred_t, th)
              /\ inf_in' = inf_in \o [r \in DOMAIN token_mask |->
                                         <<token_mask[r], logits_t[r]>>]
    /\ fetched' = fetched + 1
    /\ forwards' = forwards + 1
    /\ calls' = <<"forward">>
    /\ UNCHANGED <<taskVars, pc, err, loss_type, dl_len, steps, n_pred_total,
                   n_pred_correct, labels, th, ret, n_calls, at_call, unstepped,
                   step_used, step_due, batch_stats, ccVars, drvVars>>

\* line 241
InferenceFinish ==
    /\ pc = "inference_loop" /\ fetched = dl_len
    /\ ret' = <<preds>>
    /\ pc' = "idle"
    /\ UNCHANGED <<taskVars, err, loss_type, dl_len, fetched, forwards, steps,
                   n_pred_total, n_pred_correct, calls, preds, labels, th, histVars,
                   ccVars, drvVars>>

----------------------------------------------------------------------------
(* A task whose train is called with any dataloader and loss kind *)

Init ==
    /\ \E G \in 1 .. MaxGA, spe \in 1 .. MaxStepsPerEpoch : NewTask(G, spe)
    /\ NoCall /\ NoHistory /\ NoComputeCorrect /\ NoDriver

CallTrain ==
    /\ n_calls < MaxCalls
    /\ dpc = "none"
    /\ \E type \in LossTypes, n \in 0 .. MaxLen : TrainStart(type, n)
    /\ UNCHANGED drvVars

Next == CallTrain \/ TrainBatch \/ TrainFinish

Spec == Init /\ [][Next]_vars

(* A task with fixed args, for the calls that do not read them; one eval
   call on any dataloader *)

InitOneTask ==
    /\ NewTask(1, 1) /\ NoCall /\ NoHistory /\ NoComputeCorrect /\ NoDriver

CallEval ==
    /\ n_calls < 1
    /\ \E type \in LossTypes, n \in 0 .. MaxEvalLen : EvalStart(type, n)
    /\ UNCHANGED drvVars

NextEval == CallEval \/ EvalBatch \/ EvalFinish

SpecEval == InitOneTask /\ [][NextEval]_vars

(* One inference call on any dataloader *)

CallInference ==
    /\ n_calls < 1
    /\ \E n \in 0 .. MaxInfLen, t \in Thresholds : InferenceStart(n, t)
    /\ UNCHANGED drvVars

NextInference == CallInference \/ InferenceBatch \/ InferenceFinish

SpecInference == InitOneTask /\ [][NextInference]_vars

(* A task whose train and eval are called with any loss kind *)

CallTrainShort ==
    /\ n_calls < MaxCalls
    /\ \E type \in LossTypes, n \in 0 .. MaxLossLen : TrainStart(type, n)
    /\ UNCHANGED drvVars

CallEvalShort ==
    /\ n_calls < MaxCalls
    /\ \E type \in LossTypes, n \in 0 .. MaxLossLen : EvalStart(type, n)
    /\ UNCHANGED drvVars

NextLoss ==
    \/ CallTrainShort \/ TrainBatch \/ TrainFinish
    \/ CallEvalShort \/ EvalBatch \/ EvalFinish

SpecLoss == InitOneTask /\ [][NextLoss]_vars

----------------------------------------------------------------------------
(* train.py: compute_warmup_steps and the epoch loop                       *)

\* int(args.batches_per_epoch / args.gradient_accumulation_steps)
compute_steps_per_epoch_ceil(B, G) == (B + G - 1) \div G

compute_steps_per_epoch(B, G) == B \div G

\* compute_warmup_steps: steps_per_epoch and num_training_steps
compute_warmup_steps(a) ==
    LET spe == compute_steps_per_epoch(a.batches_per_epoch,
                                       a.gradient_accumulation_steps)
    IN  [a EXCEPT !.steps_per_epoch = spe, !.num_training_steps = spe * a.epochs]

\* epoch % args.eval_every == 0 or epoch == 1
eval_due(e, every) == e % every = 0 \/ e = 1

\* eval_f_score > best_f1
is_better_or_equal(f, best) == f >= best

is_better(f, best) == f > best

\* the state at line 182: arguments parsed, batches_per_epoch set to
\* len(train_epoch_gen), compute_warmup_steps applied, task constructed
InitDriver ==
    /\ \E E \in 1 .. MaxEpochs, every \in 0 .. MaxEvalEvery,
          B \in 1 .. MaxBatchesPerEpoch, G \in 1 .. MaxGA :
          LET a == compute_warmup_steps(
                      [epochs |-> E, eval_every |-> every, batches_per_epoch |-> B,
                       gradient_accumulation_steps |-> G, steps_per_epoch |-> 0,
                       num_training_steps |-> 0])
          IN  /\ cfg = [epochs |-> E, eval_every |-> every, batches_per_epoch |-> B,
                        num_training_steps |-> a.num_training_steps]
              /\ NewTask(G, a.steps_per_epoch)
    /\ mode = "eval"
    /\ NoCall /\ NoHistory /\ NoComputeCorrect
    /\ dpc = "epoch_top" /\ epoch = 1 /\ best_f1 = 0 /\ saved = <<>> /\ f_seen = <<>>

\* lines 182-191: the next epoch calls task.train on a fresh iterator of
\* batches_per_epoch batches, with the default loss kind
DriverCallTrain ==
    /\ dpc = "epoch_top"
    /\ epoch <= cfg.epochs
    /\ TrainStart("binary_cross_entropy", cfg.batches_per_epoch)
    /\ dpc' = "in_train"
    /\ UNCHANGED <<cfg, epoch, best_f1, saved, f_seen>>

\* line 182: range(1, args.epochs + 1) is exhausted
DriverDone ==
    /\ dpc = "epoch_top"
    /\ epoch > cfg.epochs
    /\ dpc' = "done"
    /\ UNCHANGED <<taskVars, callVars, histVars, ccVars, cfg, epoch, best_f1, saved,
                   f_seen>>

\* lines 193-198: train returned; is this epoch evaluated?
DriverAfterTrain ==
    /\ dpc = "in_train"
    /\ pc = "idle"
    /\ IF cfg.eval_every = 0
       THEN \* epoch % 0
            dpc' = "error" /\ err' = "ZeroDivisionError" /\ UNCHANGED epoch
       ELSE /\ UNCHANGED err
            /\ IF eval_due(epoch, cfg.eval_every)
               THEN dpc' = "eval" /\ UNCHANGED epoch
               ELSE dpc' = "epoch_top" /\ epoch' = epoch + 1
    /\ UNCHANGED <<taskVars, pc, loss_type, dl_len, fetched, forwards, steps,
                   n_pred_total, n_pred_correct, calls, preds, labels, th, ret,
                   histVars, ccVars, cfg, best_f1, saved, f_seen>>

\* lines 199-241: task.eval on the validation set (its eval_f_score is any
\* score, or it raises), the best-F1 test and save_checkpoint
DriverEval ==
    /\ dpc = "eval"
    /\ mode' = "eval"
    /\ \/ \E eval_f_score \in FScores :
            LET is_best == is_better(eval_f_score, best_f1)
            IN  /\ best_f1' = IF is_best THEN eval_f_score ELSE best_f1
                /\ saved' = Append(saved, [filename |-> epoch, is_best |-> is_best])
                /\ f_seen' = Append(f_seen, eval_f_score)
                /\ epoch' = epoch + 1
                /\ dpc' = "epoch_top"
                /\ UNCHANGED err
       \/ /\ dpc' = "error" /\ err' = "ZeroDivisionError"
          /\ UNCHANGED <<best_f1, saved, f_seen, epoch>>
    /\ UNCHANGED <<args, global_step, opt_steps, sched_steps, grad, pc, loss_type,
                   dl_len, fetched, forwards, steps, n_pred_total, n_pred_correct,
                   calls, preds, labels, th, ret, histVars, ccVars, cfg>>

NextDriver ==
    \/ DriverCallTrain \/ TrainBatch \/ TrainFinish
    \/ DriverAfterTrain \/ DriverEval \/ DriverDone

SpecDriver == InitDriver /\ [][NextDriver]_vars

----------------------------------------------------------------------------
(* Properties of train, under Spec *)

Has(seq, x) == \E i \in DOMAIN seq : seq[i] = x

\* the train call that is running, or the latest one, got a loss functor
TrainRan == n_calls >= 1 /\ err # "NotImplementedError"

\* the latest train call returned to its caller
TrainReturned == n_calls >= 1 /\ pc = "idle"

\* C1: with gradient_accumulation_steps = 1 and steps_per_epoch = N >= 1, a
\* train call on a dataloader of at least N batches never takes more than N
\* batches, and once its loop has ended it has taken and forwarded exactly N.
C1_EarlyStop ==
    (/\ TrainRan
     /\ args.gradient_accumulation_steps = 1
     /\ args.steps_per_epoch >= 1
     /\ dl_len >= args.steps_per_epoch)
    => /\ fetched <= args.steps_per_epoch
       /\ forwards = fetched
       /\ pc # "train_loop" => fetched = args.steps_per_epoch

C1_Witness ==
    /\ TrainReturned
    /\ args.gradient_accumulation_steps = 1
    /\ args.steps_per_epoch = 2
    /\ dl_len = 4
    /\ fetched = 2 /\ forwards = 2

\* C6 (as claimed): a train call that returns has increased global_step by the
\* number of optimizer.step() calls it made, and global_step never decreases.
C6_GlobalStepCountsOptimizerSteps ==
    /\ global_step >= at_call.global_step
    /\ TrainReturned =>
          global_step - at_call.global_step = opt_steps - at_call.opt_steps

\* C8 (as claimed): with gradient_accumulation_steps > 1, the .grad buffers at an
\* optimizer.step() hold the gradients of all the batches processed since the
\* previous optimizer.step() (or since the start of the epoch).
C8_GradientsAccumulated ==
    (TrainRan /\ args.gradient_accumulation_steps > 1 /\ Has(calls, "optimizer.step"))
    => step_used = step_due

\* C9: every processed batch makes its framework calls in the order zero_grad,
\* forward, loss, backward, clipping and then, exactly when its zero-based
\* index is a multiple of gradient_accumulation_steps, optimizer.step()
\* directly followed by scheduler.step(); the two have been called equally
\* often after every batch, and a call has stepped once per such index.
C9_StepGating ==
    LET G == args.gradient_accumulation_steps
        body == <<"zero_grad", "forward", "loss", "backward", "clip_grad_norm_">>
        update == <<"optimizer.step", "scheduler.step">>
    IN  /\ opt_steps = sched_steps
        /\ TrainRan =>
             /\ opt_steps - at_call.opt_steps
                  = Cardinality({i \in 0 .. fetched - 1 : i % G = 0})
             /\ fetched = 0 => calls = <<>>
             /\ fetched > 0 =>
                  calls = IF (fetched - 1) % G = 0 THEN body \o update ELSE body

C9_Witness ==
    /\ TrainRan
    /\ args.gradient_accumulation_steps = 2
    /\ fetched = 3
    /\ opt_steps - at_call.opt_steps = 2
    /\ Has(calls, "scheduler.step")

----------------------------------------------------------------------------
(* Properties of compute_correct, under SpecCC *)

\* cells of the input the mask keeps
KeptCells(in) ==
    {rc \in UNION {{<<r, c>> : c \in DOMAIN in.mask[r]} : r \in DOMAIN in.mask} :
        in.mask[rc[1]][rc[2]] # 0}

\* C2: n_correct is the number of cells where the mask is true and the
\* thresholded prediction (sigmoid(logit) > th) equals the label, and changing
\* the logit and label of a cell where the mask is false changes nothing of
\* what compute_correct returns (count, filtered predictions, filtered labels).
C2_MaskIndependence ==
    cc_out # <<>> =>
       /\ cc_out[1].n_correct =
             Cardinality({rc \in KeptCells(cc_in) :
                 (IF sigmoid(cc_in.logits[rc[1]][rc[2]]) > cc_in.th THEN 1 ELSE 0)
                    = cc_in.labels[rc[1]][rc[2]]})
       /\ Len(cc_out[1].preds) = Cardinality(KeptCells(cc_in))
       /\ Len(cc_out[1].labels) = Cardinality(KeptCells(cc_in))
       /\ cc_prev # <<>> => cc_out = cc_prev

C2_Witness ==
    /\ cc_prev # <<>>
    /\ Len(cc_in.mask) = 2
    /\ cc_in.mask = <<<<1>>, <<0>>>>
    /\ cc_in.logits[2][1] = 2 /\ cc_in.labels[2][1] = 1
    /\ cc_out[1].n_correct = 1

----------------------------------------------------------------------------
(* Properties of eval, under SpecEval *)

EvalReturned == n_calls >= 1 /\ pc = "idle" /\ ret # <<>>

TotalCorrect == SumSeq([i \in DOMAIN batch_stats |-> batch_stats[i][1]])
TotalValid == SumSeq([i \in DOMAIN batch_stats |-> batch_stats[i][2]])

\* C3: the eval_acc that eval returns is (matching valid positions of all
\* batches) / (valid positions of all batches).
C3_AggregateAccuracy ==
    EvalReturned => ret[1].eval_acc = <<TotalCorrect, TotalValid>>

\* two batches whose mean of per-batch accuracies, (a/b + c/d) / 2, is not
\* the returned accuracy
C3_Witness ==
    /\ EvalReturned
    /\ Len(batch_stats) = 2
    /\ batch_stats[1][2] = 1 /\ batch_stats[2][2] = 2
    /\ LET a == batch_stats[1][1]  b == batch_stats[1][2]
           c == batch_stats[2][1]  d == batch_stats[2][2]
           acc == ret[1].eval_acc
       IN  (a * d + c * b) * acc[2] # acc[1] * (2 * b * d)

----------------------------------------------------------------------------
(* Properties of inference, under SpecInference *)

\* C4: the list inference builds and returns has one entry per input sentence
\* in traversal order; the k-th entry has one element per position of the
\* k-th sentence whose token_mask differs from ignore_index, and that element
\* is 1 iff the probability at the position exceeds th.
C4_InferenceOrder ==
    (n_calls >= 1 /\ pc \in {"inference_loop", "idle"}) =>
       /\ Len(preds) = Len(inf_in)
       /\ \A k \in DOMAIN inf_in :
             LET m == inf_in[k][1]
                 x == inf_in[k][2]
                 valid == {j \in DOMAIN m : m[j] # IgnoreIndex}
             IN  /\ Len(preds[k]) = Cardinality(valid)
                 /\ \A j \in valid :
                       preds[k][Cardinality({i \in valid : i <= j})]
                          = (IF sigmoid(x[j]) > th THEN 1 ELSE 0)
       /\ pc = "idle" => ret = <<preds>>

C4_Witness ==
    /\ n_calls >= 1 /\ pc = "idle"
    /\ fetched = 2
    /\ Len(inf_in) = 3
    /\ ret = << << <<1>>, <<>>, <<0, 1>> >> >>

----------------------------------------------------------------------------
(* Properties of the loss kind, under SpecLoss *)

\* C5: a train or eval call with a loss kind other than "binary_cross_entropy"
\* ends in NotImplementedError with no batch taken, no forward pass, no
\* optimizer or scheduler step and global_step as it was; no other call
\* raises that error.
C5_UnsupportedLossFailsFast ==
    /\ (n_calls >= 1 /\ loss_type # "binary_cross_entropy") =>
          /\ pc = "error" /\ err = "NotImplementedError"
          /\ fetched = 0 /\ forwards = 0 /\ calls = <<>>
          /\ global_step = at_call.global_step
          /\ opt_steps = at_call.opt_steps
          /\ sched_steps = at_call.sched_steps
    /\ err = "NotImplementedError" => loss_type # "binary_cross_entropy"

C5_Witness ==
    /\ n_calls = 2
    /\ err = "NotImplementedError"
    /\ global_step = 1 /\ opt_steps = 1

----------------------------------------------------------------------------
(* Properties of the driver, under SpecDriver *)

MaxOf(S) == CHOOSE x \in S : \A y \in S : y <= x

\* C7: the save_checkpoint calls made so far are one per evaluated epoch
\* (epoch 1 and the epochs divisible by eval_every) already completed, in
\* increasing epoch order and so with pairwise different file names, none for
\* another epoch; a call's is_best is true iff that epoch's eval_f_score is
\* greater than 0.0 and than every earlier eval_f_score; best_f1 is the
\* maximum of 0.0 and the eval_f_score values seen so far.
C7_BestCheckpoint ==
    dpc # "none" =>
       /\ Len(saved) = Len(f_seen)
       /\ Len(saved) = Cardinality({e \in 1 .. epoch - 1 :
                            cfg.eval_every # 0
                            /\ (e = 1 \/ e % cfg.eval_every = 0)})
       /\ \A i \in DOMAIN saved :
             /\ saved[i].filename \in 1 .. epoch - 1
             /\ saved[i].filename = 1 \/ saved[i].filename % cfg.eval_every = 0
             /\ \A j \in DOMAIN saved : i < j => saved[i].filename < saved[j].filename
             /\ saved[i].is_best <=>
                   (f_seen[i] > 0 /\ \A j \in 1 .. i - 1 : f_seen[i] > f_seen[j])
       /\ best_f1 = MaxOf({0} \cup {f_seen[i] : i \in DOMAIN f_seen})

C7_Witness ==
    /\ dpc = "done"
    /\ cfg.epochs = 3 /\ cfg.eval_every = 2
    /\ saved = <<[filename |-> 1, is_best |-> TRUE], [filename |-> 2, is_best |-> FALSE]>>
    /\ f_seen = <<1, 1>>

\* C10: with steps_per_epoch = int(batches_per_epoch / gradient_accumulation_steps)
\* and batches_per_epoch >= gradient_accumulation_steps, every train call that
\* ends its loop has processed steps_per_epoch * gradient_accumulation_steps
\* batches with steps_per_epoch optimizer and scheduler steps, and when the
\* epoch loop is over the scheduler steps and global_step both equal
\* num_training_steps = steps_per_epoch * epochs.
C10_SchedulerBudget ==
    LET G == args.gradient_accumulation_steps
        spe == args.steps_per_epoch
    IN  (dpc # "none" /\ cfg.batches_per_epoch >= G) =>
           /\ spe = cfg.batches_per_epoch \div G
           /\ cfg.num_training_steps = spe * cfg.epochs
           /\ (n_calls >= 1 /\ pc # "train_loop") =>
                 /\ fetched = spe * G
                 /\ opt_steps - at_call.opt_steps = spe
                 /\ sched_steps - at_call.sched_steps = spe
           /\ dpc = "done" =>
                 /\ sched_steps = cfg.num_training_steps
                 /\ opt_steps = cfg.num_training_steps
                 /\ global_step = cfg.num_training_steps

C10_Witness ==
    /\ dpc = "done"
    /\ args.gradient_accumulation_steps = 2
    /\ cfg.batches_per_epoch = 3
    /\ cfg.epochs = 2
    /\ sched_steps = 2 /\ global_step = 2

====
